---- MODULE Spec2Model ----
(***************************************************************************)
(* A model of the alicloudapislim package: the WuliuClient (logistics      *)
(* tracking, with its memoized provider list) and the MarketClient (cloud  *)
(* marketplace metering, pricing and ordering, with its page-walk and its  *)
(* request signing).                                                       *)
(*                                                                         *)
(*   Spec      one goroutine calling the public operations of both clients *)
(*             one after the other against an arbitrary HTTP environment.  *)
(*   SpecConc  two goroutines calling WuliuClient.GetProviders on the same *)
(*             client, statement by statement.                             *)
(*   SpecSign  MarketClient.request's parameter set, canonical query,      *)
(*             signature input and sent URL, for every operation and for   *)
(*             CreateOrder overrides.                                      *)
(*                                                                         *)
(* Non-ASCII display strings of the source are written as their code       *)
(* points ("U+5728 U+9014 U+4E2D").                                        *)
(***************************************************************************)
EXTENDS Integers, Sequences, FiniteSets, TLC

VARIABLES
    providers,    \* WuliuClient.providers: a slice header [data, len]
    op,           \* the operation of the call in progress, or of the last call
    status,       \* "idle" | "running" | "panicked" | "overflow"
    reqs,         \* the HTTP requests issued by the current call, in order
    httpStatus,   \* status code of the last HTTP response of the current call, 0 if none
    resp,         \* the last response body the current call decoded
    ret,          \* what the current call returned: [val, err]
    calls,        \* number of calls started
    listReqs,     \* number of /getExpressList requests issued so far
    got,          \* the first non-empty list GetProviders returned without error
    srvCount,     \* the Count the metering server reports during the current walk
    srvPageSize,  \* the PageSize it reports (0: the field is absent)
    stack,        \* the activation records of getProducts, innermost last
    failed,       \* a page request of the current walk has failed
    tpc,          \* SpecConc: each goroutine's position in GetProviders: [at, todo]
    tlocal,       \* SpecConc: each goroutine's local variable `providers`
    tret,         \* SpecConc: what each goroutine's call returned
    twrote,       \* SpecConc: the goroutines that assigned client.providers in their current call
    sop,          \* SpecSign: the operation whose request is being built
    spc,          \* SpecSign: "new" | "built" | "sent"
    params,       \* SpecSign: the url.Values of the request
    builtParams,  \* SpecSign: params as the operation handed them to request
    query,        \* SpecSign: buildQueryString's result
    signedMsg,    \* SpecSign: the message handed to the HMAC
    sentQuery     \* SpecSign: the query string of the URL handed to the HTTP client

seqVars  == <<providers, op, status, reqs, httpStatus, resp, ret, calls, listReqs,
              got, srvCount, srvPageSize, stack, failed>>
concVars == <<tpc, tlocal, tret, twrote>>
signVars == <<sop, spc, params, builtParams, query, signedMsg, sentQuery>>
vars     == <<seqVars, concVars, signVars>>

----------------------------------------------------------------------------
(* Bounds of the model.                                                    *)

MaxProviders == 2   \* provider codes the vendor may list
MaxCalls     == 3   \* calls the sequential caller makes
MaxCount     == 4   \* largest Count the metering server reports
MaxPageSize  == 2   \* largest PageSize the metering server reports
MaxDepth     == 4   \* nested getProducts calls the goroutine stack holds
MaxOverrides == 3   \* variadic arguments handed to CreateOrder

----------------------------------------------------------------------------
(* Values.                                                                 *)

Nil == "nil"

\* A Go slice header: the backing array's contents and the length word.
Slice(s) == [data |-> s, len |-> Len(s)]
NilSlice == Slice(<< >>)

\* One HTTP GET: the path (or the Market Action) and, for a metering page, pageNum.
Req(path, page) == [path |-> path, page |-> page]

NoVal  == [kind |-> "nil"]
NoBody == [kind |-> "none"]
Malformed == [kind |-> "malformed"]

ProviderCodes == 1 .. MaxProviders
WuliuProvider(c) == [Code |-> c, Name |-> c]

VendorStatus == {"0", "200", "201"}
StatusCodes  == {200, 500}
DeliveryCodes == {"", "0", "1", "2", "3", "4", "5", "6", "7", "x"}

\* What the HTTP client hands back for one request: a transport error, or a
\* response with a status code and a body.
Outcomes(bodies) ==
    {[ok |-> FALSE, code |-> 0, body |-> NoBody]}
    \cup [ok : {TRUE}, code : StatusCodes, body : bodies \cup {Malformed}]

ProvidersBodies ==
    [kind : {"json"}, status : VendorStatus, result : SUBSET ProviderCodes]
ForNumberBodies ==
    [kind : {"json"}, status : VendorStatus, list : {<< >>, <<2, 1>>}]
StatusBodies ==
    [kind : {"json"}, status : VendorStatus, deliverystatus : DeliveryCodes]
MarketBodies ==
    [kind : {"json"}, Code : {"", "cmapi1"}]

Goroutines == {1, 2}

\* The machine words of a slice header that a racing read or write touches.
Words == {"data", "len"}

\* A goroutine's position: the statement it is at and, inside a read or a
\* write of client.providers, the words still to be transferred.
At(stmt, todo) == [at |-> stmt, todo |-> todo]

----------------------------------------------------------------------------
(* WuliuClient.                                                            *)

\* WuliuClient.request: the status code is never looked at; the body is decoded.
WuliuRequest(o) ==
    IF ~o.ok THEN [err |-> "transport", body |-> NoBody]
    ELSE IF o.body.kind = "malformed" THEN [err |-> "decode", body |-> NoBody]
    ELSE [err |-> Nil, body |-> o.body]

RECURSIVE SortByCode(_)
\* The providers built from the result map (iterated in any order), after
\* sort.Slice by Code: the codes are the map's keys, hence distinct.
SortByCode(S) ==
    IF S = {} THEN << >>
    ELSE LET m == CHOOSE c \in S : \A d \in S : c <= d
         IN  <<WuliuProvider(m)>> \o SortByCode(S \ {m})

\* Mutant: the switch without its last case.
DeliveryStatusText_noSix(s) ==
    CASE s = "0" -> "U+5FEB U+9012 U+6536 U+4EF6 ( U+63FD U+4EF6 )"
      [] s = "1" -> "U+5728 U+9014 U+4E2D"
      [] s = "2" -> "U+6B63 U+5728 U+6D3E U+4EF6"
      [] s = "3" -> "U+5DF2 U+7B7E U+6536"
      [] s = "4" -> "U+6D3E U+9001 U+5931 U+8D25"
      [] s = "5" -> "U+7591 U+96BE U+4EF6"
      [] OTHER   -> s

\* The switch of GetStatusForNumber on deliverystatus.
DeliveryStatusText(s) ==
    CASE s = "0" -> "U+5FEB U+9012 U+6536 U+4EF6 ( U+63FD U+4EF6 )"
      [] s = "1" -> "U+5728 U+9014 U+4E2D"
      [] s = "2" -> "U+6B63 U+5728 U+6D3E U+4EF6"
      [] s = "3" -> "U+5DF2 U+7B7E U+6536"
      [] s = "4" -> "U+6D3E U+9001 U+5931 U+8D25"
      [] s = "5" -> "U+7591 U+96BE U+4EF6"
      [] s = "6" -> "U+9000 U+4EF6 U+7B7E U+6536"
      [] OTHER   -> s

\* What a call start does to the caller's bookkeeping.
Begin(name) ==
    /\ status = "idle"
    /\ calls < MaxCalls
    /\ calls' = calls + 1
    /\ op' = name

\* A call that is no page-walk: no metering data is reported during it.
NoWalk ==
    /\ srvCount' = 0
    /\ srvPageSize' = 0
    /\ failed' = FALSE
    /\ UNCHANGED <<status, stack>>

\* Mutant: the list is returned and never assigned to client.providers.
ProvidersResult_noStore(o) ==
    LET r == WuliuRequest(o) IN
    IF r.err # Nil THEN [err |-> r.err, list |-> NilSlice, store |-> FALSE]
    ELSE IF r.body.status # "200"
         THEN [err |-> "vendor", list |-> NilSlice, store |-> FALSE]
    ELSE [err |-> Nil, list |-> Slice(SortByCode(r.body.result)), store |-> FALSE]

\* Mutant: the list is built and assigned before the vendor status is checked.
ProvidersResult_storeFirst(o) ==
    LET r == WuliuRequest(o) IN
    IF r.err # Nil THEN [err |-> r.err, list |-> NilSlice, store |-> FALSE]
    ELSE LET ps == SortByCode(r.body.result)
         IN  [err |-> IF r.body.status # "200" THEN "vendor" ELSE Nil,
              list |-> Slice(ps), store |-> Len(ps) > 0]

\* The result GetProviders computes from a /getExpressList outcome:
\* [err, list, store], store saying whether client.providers is assigned.
ProvidersResult(o) ==
    LET r == WuliuRequest(o) IN
    IF r.err # Nil THEN [err |-> r.err, list |-> NilSlice, store |-> FALSE]
    ELSE IF r.body.status # "200"
         THEN [err |-> "vendor", list |-> NilSlice, store |-> FALSE]
    ELSE LET ps == SortByCode(r.body.result)
         IN  [err |-> Nil, list |-> Slice(ps), store |-> Len(ps) > 0]

GetProviders(o) ==
    /\ Begin("GetProviders")
    /\ IF providers.len > 0
       THEN /\ ret' = [val |-> [kind |-> "providers", list |-> providers], err |-> Nil]
            /\ reqs' = << >>
            /\ httpStatus' = 0
            /\ resp' = NoBody
            /\ UNCHANGED <<providers, listReqs, got>>
       ELSE LET r == ProvidersResult(o) IN
            /\ reqs' = <<Req("/getExpressList", 0)>>
            /\ listReqs' = listReqs + 1
            /\ httpStatus' = o.code
            /\ resp' = WuliuRequest(o).body
            /\ providers' = IF r.store THEN r.list ELSE providers
            /\ ret' = IF r.err # Nil
                      THEN [val |-> NoVal, err |-> r.err]
                      ELSE [val |-> [kind |-> "providers", list |-> r.list], err |-> Nil]
            /\ got' = IF got = NilSlice /\ r.err = Nil /\ r.list.len > 0
                      THEN r.list ELSE got
    /\ NoWalk

ForNumberResult(o) ==
    LET r == WuliuRequest(o) IN
    IF r.err # Nil THEN [val |-> NoVal, err |-> r.err]
    ELSE IF r.body.status # "0" THEN [val |-> NoVal, err |-> "vendor"]
    ELSE [val |-> [kind |-> "providers",
                   list |-> Slice([i \in 1 .. Len(r.body.list) |->
                                      WuliuProvider(r.body.list[i])])],
          err |-> Nil]

GetProvidersForNumber(o) ==
    /\ Begin("GetProvidersForNumber")
    /\ reqs' = <<Req("/exCompany", 0)>>
    /\ httpStatus' = o.code
    /\ resp' = WuliuRequest(o).body
    /\ ret' = ForNumberResult(o)
    /\ NoWalk
    /\ UNCHANGED <<providers, listReqs, got>>

StatusResult(o) ==
    LET r == WuliuRequest(o) IN
    IF r.err # Nil THEN [val |-> NoVal, err |-> r.err]
    ELSE IF r.body.status # "0" THEN [val |-> NoVal, err |-> "vendor"]
    ELSE [val |-> [kind |-> "status",
                   Status |-> DeliveryStatusText(r.body.deliverystatus)],
          err |-> Nil]

GetStatusForNumber(o) ==
    /\ Begin("GetStatusForNumber")
    /\ reqs' = <<Req("/kdi", 0)>>
    /\ httpStatus' = o.code
    /\ resp' = WuliuRequest(o).body
    /\ ret' = StatusResult(o)
    /\ NoWalk
    /\ UNCHANGED <<providers, listReqs, got>>

----------------------------------------------------------------------------
(* MarketClient.                                                           *)

\* MarketClient.request, from http.DefaultClient.Do on: a transport error, a
\* status other than 200 and an undecodable body each end it with an error.
MarketRequest(o) ==
    IF ~o.ok THEN [err |-> "transport", body |-> NoBody]
    ELSE IF o.code # 200 THEN [err |-> "status", body |-> NoBody]
    ELSE IF o.body.kind = "malformed" THEN [err |-> "decode", body |-> NoBody]
    ELSE [err |-> Nil, body |-> o.body]

\* GetProduct, GetPrice and CreateOrder: one request, the decoded fields reshaped.
MarketSimple(name, action, o) ==
    LET r == MarketRequest(o) IN
    /\ Begin(name)
    /\ reqs' = <<Req(action, 0)>>
    /\ httpStatus' = o.code
    /\ resp' = r.body
    /\ ret' = IF r.err # Nil THEN [val |-> NoVal, err |-> r.err]
              ELSE [val |-> [kind |-> name, Id |-> r.body.Code], err |-> Nil]
    /\ NoWalk
    /\ UNCHANGED <<providers, listReqs, got>>

GetProduct(o)  == MarketSimple("GetProduct", "DescribeProduct", o)
GetPrice(o)    == MarketSimple("GetPrice", "DescribePrice", o)
CreateOrder(o) == MarketSimple("CreateOrder", "CreateOrder", o)

Min(a, b) == IF a <= b THEN a ELSE b

\* The metering server's products are numbered 1 .. srvCount; page p holds the
\* next srvPageSize of them (all of them when the server does not page).
PageItems(p) ==
    IF srvPageSize = 0 THEN [k \in 1 .. srvCount |-> k]
    ELSE LET lo == (p - 1) * srvPageSize
             hi == Min(p * srvPageSize, srvCount)
         IN  [k \in 1 .. (IF hi > lo THEN hi - lo ELSE 0) |-> lo + k]

PageBodies(p) ==
    [kind : {"json"}, Success : BOOLEAN, Count : {srvCount},
     PageSize : {srvPageSize}, Result : {PageItems(p)}]

\* An activation record of getProducts(ctx, pageNum).
Frame(pageNum) ==
    [pageNum |-> pageNum, pc |-> "request", products |-> << >>,
     totalPages |-> 0, i |-> 0, ret |-> [val |-> NoVal, err |-> Nil]]

Top == stack[Len(stack)]
SetTop(f) == [stack EXCEPT ![Len(stack)] = f]

\* GetProducts: calls getProducts(ctx, 1). The metering data the server holds
\* during the walk is any within the bounds.
GetProducts ==
    /\ Begin("GetProducts")
    /\ status' = "running"
    /\ stack' = <<Frame(1)>>
    /\ reqs' = << >>
    /\ httpStatus' = 0
    /\ resp' = NoBody
    /\ ret' = [val |-> NoVal, err |-> Nil]
    /\ failed' = FALSE
    /\ srvCount' \in 0 .. MaxCount
    /\ srvPageSize' \in 0 .. MaxPageSize
    /\ UNCHANGED <<providers, listReqs, got>>

\* getProducts, from its request to the computation of totalPages.
PageResponse(o) ==
    LET r == MarketRequest(o) IN
    /\ reqs' = Append(reqs, Req("DescribeApiMetering", Top.pageNum))
    /\ httpStatus' = o.code
    /\ resp' = r.body
    /\ IF r.err # Nil
       THEN /\ stack' = SetTop([Top EXCEPT !.pc = "ret",
                                           !.ret = [val |-> NoVal, err |-> r.err]])
            /\ failed' = TRUE
            /\ status' = status
       ELSE IF ~r.body.Success
       THEN /\ stack' = SetTop([Top EXCEPT !.pc = "ret",
                                           !.ret = [val |-> NoVal, err |-> "vendor"]])
            /\ failed' = TRUE
            /\ status' = status
       ELSE IF r.body.PageSize = 0
       THEN \* integer divide by zero: a run-time panic
            /\ status' = "panicked"
            /\ UNCHANGED <<stack, failed>>
       ELSE /\ stack' = SetTop([Top EXCEPT !.pc = "loop",
                                           !.products = r.body.Result,
                                           !.totalPages = r.body.Count \div r.body.PageSize,
                                           !.i = 2])
            /\ UNCHANGED <<status, failed>>
    /\ UNCHANGED <<providers, op, ret, calls, listReqs, got, srvCount, srvPageSize>>

PageRequest ==
    /\ status = "running"
    /\ Top.pc = "request"
    /\ \E o \in Outcomes(PageBodies(Top.pageNum)) : PageResponse(o)

\* The loop head: call getProducts(ctx, i), or leave the loop and return.
PageLoop ==
    /\ status = "running"
    /\ Top.pc = "loop"
    /\ IF Top.i <= Top.totalPages
       THEN IF Len(stack) < MaxDepth
            THEN /\ stack' = Append(stack, Frame(Top.i))
                 /\ status' = status
            ELSE \* the goroutine stack is exhausted: a fatal error
                 /\ status' = "overflow"
                 /\ stack' = stack
       ELSE /\ stack' = SetTop([Top EXCEPT !.pc = "ret",
                                           !.ret = [val |-> [kind |-> "products",
                                                             list |-> Top.products],
                                                    err |-> Nil]])
            /\ status' = status
    /\ UNCHANGED <<providers, op, reqs, httpStatus, resp, ret, calls, listReqs, got,
                   srvCount, srvPageSize, failed>>

\* Mutant: the loop body drops the error of a nested call and goes on.
PageReturn_ignoreError ==
    /\ status = "running"
    /\ Top.pc = "ret"
    /\ IF Len(stack) = 1
       THEN /\ status' = "idle"
            /\ ret' = Top.ret
            /\ stack' = << >>
       ELSE LET caller == stack[Len(stack) - 1]
                rest   == SubSeq(stack, 1, Len(stack) - 2)
            IN  /\ stack' = rest \o
                     << IF Top.ret.err # Nil
                        THEN [caller EXCEPT !.i = @ + 1]
                        ELSE [caller EXCEPT !.products = @ \o Top.ret.val.list,
                                            !.i = @ + 1] >>
                /\ UNCHANGED <<status, ret>>
    /\ UNCHANGED <<providers, op, reqs, httpStatus, resp, calls, listReqs, got,
                   srvCount, srvPageSize, failed>>

\* A getProducts call returns: to GetProducts' caller, or into the loop body
\* of the getProducts that called it.
PageReturn ==
    /\ status = "running"
    /\ Top.pc = "ret"
    /\ IF Len(stack) = 1
       THEN /\ status' = "idle"
            /\ ret' = Top.ret
            /\ stack' = << >>
       ELSE LET caller == stack[Len(stack) - 1]
                rest   == SubSeq(stack, 1, Len(stack) - 2)
            IN  /\ stack' = rest \o
                     << IF Top.ret.err # Nil
                        THEN [caller EXCEPT !.pc = "ret",
                                            !.ret = [val |-> NoVal, err |-> Top.ret.err]]
                        ELSE [caller EXCEPT !.products = @ \o Top.ret.val.list,
                                            !.i = @ + 1] >>
                /\ UNCHANGED <<status, ret>>
    /\ UNCHANGED <<providers, op, reqs, httpStatus, resp, calls, listReqs, got,
                   srvCount, srvPageSize, failed>>

----------------------------------------------------------------------------
(* Spec: one caller, one call at a time.                                   *)

ConcIdle ==
    /\ tpc = [t \in Goroutines |-> At("idle", {})]
    /\ tlocal = [t \in Goroutines |-> NilSlice]
    /\ tret = [t \in Goroutines |-> [val |-> NilSlice, err |-> Nil]]
    /\ twrote = {}

SignIdle ==
    /\ sop = "none"
    /\ spc = "new"
    /\ params = << >>
    /\ builtParams = << >>
    /\ query = << >>
    /\ signedMsg = << >>
    /\ sentQuery = << >>

SeqIdle ==
    /\ providers = NilSlice
    /\ op = "none"
    /\ status = "idle"
    /\ reqs = << >>
    /\ httpStatus = 0
    /\ resp = NoBody
    /\ ret = [val |-> NoVal, err |-> Nil]
    /\ calls = 0
    /\ listReqs = 0
    /\ got = NilSlice
    /\ srvCount = 0
    /\ srvPageSize = 0
    /\ stack = << >>
    /\ failed = FALSE

Init ==
    /\ SeqIdle
    /\ ConcIdle
    /\ SignIdle

Next ==
    \/ (\E o \in Outcomes(ProvidersBodies) : GetProviders(o)) /\ UNCHANGED <<concVars, signVars>>
    \/ (\E o \in Outcomes(ForNumberBodies) : GetProvidersForNumber(o)) /\ UNCHANGED <<concVars, signVars>>
    \/ (\E o \in Outcomes(StatusBodies) : GetStatusForNumber(o)) /\ UNCHANGED <<concVars, signVars>>
    \/ (\E o \in Outcomes(MarketBodies) : GetProduct(o)) /\ UNCHANGED <<concVars, signVars>>
    \/ (\E o \in Outcomes(MarketBodies) : GetPrice(o)) /\ UNCHANGED <<concVars, signVars>>
    \/ (\E o \in Outcomes(MarketBodies) : CreateOrder(o)) /\ UNCHANGED <<concVars, signVars>>
    \/ GetProducts /\ UNCHANGED <<concVars, signVars>>
    \/ PageRequest /\ UNCHANGED <<concVars, signVars>>
    \/ PageLoop /\ UNCHANGED <<concVars, signVars>>
    \/ PageReturn /\ UNCHANGED <<concVars, signVars>>

Spec == Init /\ [][Next]_vars

----------------------------------------------------------------------------
(* Properties of Spec.                                                     *)

WalkOver == op = "GetProducts" /\ status = "idle"
AllPagesSucceed == op = "GetProducts" /\ ~failed /\ srvPageSize > 0

\* C1: a page-walk all of whose page requests succeed with PageSize > 0
\* terminates: it issues finitely many requests and returns. A walk that
\* returns has nested finitely many getProducts calls, so it has not run the
\* goroutine stack out; a walk that reaches "overflow" has not returned and
\* never will.
C1_WalkTerminates == AllPagesSucceed => status # "overflow"

\* The first page N with N * PageSize >= Count.
LastPage == CHOOSE n \in 1 .. (srvCount + 1) :
                /\ n * srvPageSize >= srvCount
                /\ \A m \in 1 .. (n - 1) : m * srvPageSize < srvCount

\* C2: a page-walk all of whose pages succeed has requested pages 1 .. N once
\* each, in order, N the first page with N * PageSize >= Count, and returns the
\* products of those pages in page order: every product once.
C2_WalkAggregates ==
    (WalkOver /\ AllPagesSucceed) =>
        /\ reqs = [p \in 1 .. LastPage |-> Req("DescribeApiMetering", p)]
        /\ ret = [val |-> [kind |-> "products", list |-> [k \in 1 .. srvCount |-> k]],
                  err |-> Nil]

\* C3: a call whose HTTP response had a status code other than 200 returns a
\* non-nil error and no result, for every operation of both clients.
C3_Non200IsError ==
    (status = "idle" /\ op # "none" /\ httpStatus \notin {0, 200}) =>
        (ret.err # Nil /\ ret.val = NoVal)

\* C4: every operation but the page-walk issues at most one request per call;
\* in a page-walk no request follows the first failed page, and the walk then
\* returns (nil, error).
C4_NoRetry ==
    /\ [](op \notin {"none", "GetProducts"} => Len(reqs) <= 1)
    /\ []((WalkOver /\ failed) => (ret.val = NoVal /\ ret.err # Nil))
    /\ [][(failed /\ calls' = calls) => reqs' = reqs]_vars

C4_Witness == WalkOver /\ failed /\ Len(reqs) >= 2 /\ ret.err # Nil

\* C5: once GetProviders has returned a non-empty list without error, every
\* later GetProviders call issues no request and returns that list, whatever
\* calls came in between.
C5_Memoized ==
    [][(got.len > 0 /\ op' = "GetProviders" /\ calls' # calls) =>
          /\ reqs' = << >>
          /\ ret' = [val |-> [kind |-> "providers", list |-> got], err |-> Nil]]_vars

C5_Witness ==
    /\ op = "GetProviders" /\ got.len > 0 /\ reqs = << >>
    /\ calls >= 3 /\ listReqs = 1
    /\ ret.val.list = got

TranslatedCodes == {d \in DeliveryCodes : DeliveryStatusText(d) # d}

\* C7 (as amended): GetStatusForNumber translates each of the seven codes "0"
\* to "6" into its display string and returns every other code unchanged.
C7_SevenCodes ==
    (op = "GetStatusForNumber" /\ ret.err = Nil) =>
        LET d == resp.deliverystatus
            s == ret.val.Status
        IN  /\ d = "0" => s = "U+5FEB U+9012 U+6536 U+4EF6 ( U+63FD U+4EF6 )"
            /\ d = "1" => s = "U+5728 U+9014 U+4E2D"
            /\ d = "2" => s = "U+6B63 U+5728 U+6D3E U+4EF6"
            /\ d = "3" => s = "U+5DF2 U+7B7E U+6536"
            /\ d = "4" => s = "U+6D3E U+9001 U+5931 U+8D25"
            /\ d = "5" => s = "U+7591 U+96BE U+4EF6"
            /\ d = "6" => s = "U+9000 U+4EF6 U+7B7E U+6536"
            /\ d \notin {"0", "1", "2", "3", "4", "5", "6"} => s = d

C7_Witness ==
    /\ op = "GetStatusForNumber" /\ ret.err = Nil
    /\ resp.deliverystatus = "6"
    /\ ret.val.Status = "U+9000 U+4EF6 U+7B7E U+6536"

\* C7 (as claimed): the table holds six codes; a code outside it is returned
\* unchanged.
C7_SixCodes ==
    (op = "GetStatusForNumber" /\ ret.err = Nil) =>
        /\ Cardinality(TranslatedCodes) = 6
        /\ resp.deliverystatus \notin TranslatedCodes
              => ret.val.Status = resp.deliverystatus

\* C9: a GetProviders call that ends with an error or with an empty list leaves
\* client.providers as it was, empty, and a GetProviders call that finds it
\* empty issues the /getExpressList request.
C9_MissLeavesCacheEmpty ==
    [][(op' = "GetProviders" /\ calls' # calls) =>
          /\ (ret'.err # Nil \/ ret'.val.list.len = 0) =>
                 (providers' = providers /\ providers' = NilSlice)
          /\ providers.len = 0 => reqs' = <<Req("/getExpressList", 0)>>]_vars

C9_Witness ==
    /\ op = "GetProviders" /\ listReqs >= 2 /\ providers = NilSlice
    /\ reqs = <<Req("/getExpressList", 0)>>
    /\ ret.err = Nil /\ ret.val.list.len = 0

\* C10: getProducts never aborts its caller with a run-time failure when it
\* computes the number of pages.
C10_NoPanic == status # "panicked"

----------------------------------------------------------------------------
(* SpecConc: GetProviders called by two goroutines on one client. There is *)
(* no lock in the code: the reads and the write of client.providers are    *)
(* plain, so each is a sequence of word accesses in either order.          *)

\* Mutant: the whole call runs under a mutex held by the client.
ConcCheck_locked(t) ==
    /\ tpc[t].at \in {"idle", "done"}
    /\ \A u \in Goroutines \ {t} : tpc[u].at \in {"idle", "done"}
    /\ tpc' = [tpc EXCEPT ![t] = IF providers.len > 0
                                 THEN At("hit", Words) ELSE At("request", {})]
    /\ twrote' = twrote \ {t}
    /\ tret' = [tret EXCEPT ![t] = [val |-> NilSlice, err |-> Nil]]
    /\ UNCHANGED <<providers, tlocal>>

\* The call starts: `if len(client.providers) > 0`.
ConcCheck(t) ==
    /\ tpc[t].at \in {"idle", "done"}
    /\ tpc' = [tpc EXCEPT ![t] = IF providers.len > 0
                                 THEN At("hit", Words) ELSE At("request", {})]
    /\ twrote' = twrote \ {t}
    /\ tret' = [tret EXCEPT ![t] = [val |-> NilSlice, err |-> Nil]]
    /\ UNCHANGED <<providers, tlocal>>

\* `return client.providers, nil`: one word of the header is read.
ConcRead(t, w) ==
    /\ tpc[t].at = "hit"
    /\ w \in tpc[t].todo
    /\ tret' = [tret EXCEPT ![t].val[w] = providers[w]]
    /\ tpc' = [tpc EXCEPT ![t] = IF tpc[t].todo = {w}
                                 THEN At("done", {}) ELSE At("hit", tpc[t].todo \ {w})]
    /\ UNCHANGED <<providers, tlocal, twrote>>

\* The request, the decoding, the status check and the sorted local list.
ConcRequest(t, o) ==
    LET r == ProvidersResult(o) IN
    /\ tpc[t].at = "request"
    /\ tlocal' = [tlocal EXCEPT ![t] = r.list]
    /\ IF r.store
       THEN /\ tpc' = [tpc EXCEPT ![t] = At("store", Words)]
            /\ tret' = tret
       ELSE /\ tpc' = [tpc EXCEPT ![t] = At("done", {})]
            /\ tret' = [tret EXCEPT ![t] = [val |-> r.list, err |-> r.err]]
    /\ UNCHANGED <<providers, twrote>>

\* `client.providers = providers`: one word of the header is written; after
\* the last one the call returns the local list.
ConcStore(t, w) ==
    /\ tpc[t].at = "store"
    /\ w \in tpc[t].todo
    /\ providers' = [providers EXCEPT ![w] = tlocal[t][w]]
    /\ IF tpc[t].todo = {w}
       THEN /\ tpc' = [tpc EXCEPT ![t] = At("done", {})]
            /\ tret' = [tret EXCEPT ![t] = [val |-> tlocal[t], err |-> Nil]]
            /\ twrote' = twrote \cup {t}
       ELSE /\ tpc' = [tpc EXCEPT ![t] = At("store", tpc[t].todo \ {w})]
            /\ UNCHANGED <<tret, twrote>>
    /\ UNCHANGED tlocal

concFrame == <<op, status, reqs, httpStatus, resp, ret, calls, listReqs, got,
               srvCount, srvPageSize, stack, failed, signVars>>

NextConc ==
    \/ (\E t \in Goroutines : ConcCheck(t)) /\ UNCHANGED concFrame
    \/ (\E t \in Goroutines, w \in Words : ConcRead(t, w)) /\ UNCHANGED concFrame
    \/ (\E t \in Goroutines, o \in Outcomes(ProvidersBodies) : ConcRequest(t, o))
          /\ UNCHANGED concFrame
    \/ (\E t \in Goroutines, w \in Words : ConcStore(t, w)) /\ UNCHANGED concFrame

SpecConc == Init /\ [][NextConc]_vars

\* The steps of goroutine t.
ConcStep(t) ==
    \/ ConcCheck(t)
    \/ \E w \in Words : ConcRead(t, w)
    \/ \E o \in Outcomes(ProvidersBodies) : ConcRequest(t, o)
    \/ \E w \in Words : ConcStore(t, w)

\* C6: nothing in GetProviders makes one goroutine wait for the other: whatever
\* the other goroutine is doing, a goroutine can take its next step, so the
\* check of the cache and the later assignment are not one atomic step.
C6_NoMutualExclusion == \A t \in Goroutines : ENABLED ConcStep(t)

\* Both goroutines found the cache empty, both issued /getExpressList and
\* both assigned client.providers in overlapping calls.
C6_Witness ==
    /\ twrote = Goroutines
    /\ \A t \in Goroutines : tpc[t].at = "done" /\ tret[t].err = Nil
    /\ tlocal[1] # tlocal[2]

----------------------------------------------------------------------------
(* SpecSign: the parameters MarketClient.request signs and sends. Strings  *)
(* are sequences of characters, compared byte by byte as Go compares them. *)

Ascii ==
    <<" ", "!", "\"", "#", "$", "%", "&", "'", "(", ")", "*", "+", ",", "-", ".", "/", "0",
      "1", "2", "3", "4", "5", "6", "7", "8", "9", ":", ";", "<", "=", ">", "?", "@", "A",
      "B", "C", "D", "E", "F", "G", "H", "I", "J", "K", "L", "M", "N", "O", "P", "Q", "R",
      "S", "T", "U", "V", "W", "X", "Y", "Z", "[", "\\", "]", "^", "_", "grave", "a", "b", "c",
      "d", "e", "f", "g", "h", "i", "j", "k", "l", "m", "n", "o", "p", "q", "r", "s", "t",
      "u", "v", "w", "x", "y", "z", "{", "|", "}", "~">>
HexDigits == <<"0", "1", "2", "3", "4", "5", "6", "7", "8", "9", "A", "B", "C", "D", "E", "F">>
Unreserved ==
    <<"A", "B", "C", "D", "E", "F", "G", "H", "I", "J", "K", "L", "M", "N", "O", "P", "Q",
      "R", "S", "T", "U", "V", "W", "X", "Y", "Z", "a", "b", "c", "d", "e", "f", "g", "h",
      "i", "j", "k", "l", "m", "n", "o", "p", "q", "r", "s", "t", "u", "v", "w", "x", "y",
      "z", "0", "1", "2", "3", "4", "5", "6", "7", "8", "9", "-", "_", ".", "~">>
kAction == <<"A", "c", "t", "i", "o", "n">>
kType == <<"t", "y", "p", "e">>
kPageNum == <<"p", "a", "g", "e", "N", "u", "m">>
kCode == <<"C", "o", "d", "e">>
kOrderType == <<"O", "r", "d", "e", "r", "T", "y", "p", "e">>
kCommodity == <<"C", "o", "m", "m", "o", "d", "i", "t", "y">>
kClientToken == <<"C", "l", "i", "e", "n", "t", "T", "o", "k", "e", "n">>
kPaymentType == <<"P", "a", "y", "m", "e", "n", "t", "T", "y", "p", "e">>
kFormat == <<"F", "o", "r", "m", "a", "t">>
kVersion == <<"V", "e", "r", "s", "i", "o", "n">>
kAccessKeyId == <<"A", "c", "c", "e", "s", "s", "K", "e", "y", "I", "d">>
kSignatureMethod ==
    <<"S", "i", "g", "n", "a", "t", "u", "r", "e", "M", "e", "t", "h", "o", "d">>
kTimestamp == <<"T", "i", "m", "e", "s", "t", "a", "m", "p">>
kSignatureVersion ==
    <<"S", "i", "g", "n", "a", "t", "u", "r", "e", "V", "e", "r", "s", "i", "o", "n">>
kSignatureNonce == <<"S", "i", "g", "n", "a", "t", "u", "r", "e", "N", "o", "n", "c", "e">>
kSignature == <<"S", "i", "g", "n", "a", "t", "u", "r", "e">>
vDescribeApiMetering ==
    <<"D", "e", "s", "c", "r", "i", "b", "e", "A", "p", "i", "M", "e", "t", "e", "r", "i",
      "n", "g">>
vDescribeProduct ==
    <<"D", "e", "s", "c", "r", "i", "b", "e", "P", "r", "o", "d", "u", "c", "t">>
vDescribePrice == <<"D", "e", "s", "c", "r", "i", "b", "e", "P", "r", "i", "c", "e">>
vCreateOrder == <<"C", "r", "e", "a", "t", "e", "O", "r", "d", "e", "r">>
vInstanceBuy == <<"I", "N", "S", "T", "A", "N", "C", "E", "_", "B", "U", "Y">>
vAuto == <<"A", "U", "T", "O">>
vOne == <<"1">>
vJson == <<"j", "s", "o", "n">>
vApiVersion == <<"2", "0", "1", "5", "-", "1", "1", "-", "0", "1">>
vHmacSha1 == <<"H", "M", "A", "C", "-", "S", "H", "A", "1">>
vSigVersion == <<"1", ".", "0">>
SignPrefix == <<"G", "E", "T", "&", "%", "2", "F", "&">>
jsonPriceHead ==
    <<"{", "\"", "c", "o", "m", "p", "o", "n", "e", "n", "t", "s", "\"", ":", "{", "\"",
      "p", "a", "c", "k", "a", "g", "e", "_", "v", "e", "r", "s", "i", "o", "n", "\"", ":",
      "\"">>
jsonPriceMid ==
    <<"\"", "}", ",", "\"", "p", "r", "o", "d", "u", "c", "t", "C", "o", "d", "e", "\"",
      ":", "\"">>
jsonTail == <<"\"", "}">>
jsonOrderMid ==
    <<"\"", "}", ",", "\"", "s", "k", "u", "C", "o", "d", "e", "\"", ":", "\"", "p", "r",
      "e", "p", "a", "y", "\"", ",", "\"", "d", "u", "r", "a", "t", "i", "o", "n", "\"",
      ":">>
jsonOrderCycle ==
    <<",", "\"", "p", "r", "i", "c", "i", "n", "g", "C", "y", "c", "l", "e", "\"", ":",
      "\"">>
jsonOrderProduct ==
    <<"\"", ",", "\"", "p", "r", "o", "d", "u", "c", "t", "C", "o", "d", "e", "\"", ":",
      "\"">>

UnreservedSet == {Unreserved[i] : i \in 1 .. Len(Unreserved)}

\* The byte value of a character: Ascii lists the bytes 32 to 126 ("grave"
\* stands for the backquote, which no string of the model holds).
Ord(c) == 31 + (CHOOSE i \in 1 .. Len(Ascii) : Ascii[i] = c)
Chr(n) == Ascii[n - 31]
HexVal(h) == (CHOOSE i \in 1 .. Len(HexDigits) : HexDigits[i] = h) - 1

\* a < b in Go's string order.
StrLess(a, b) ==
    \E i \in 1 .. (Min(Len(a), Len(b)) + 1) :
        /\ \A j \in 1 .. (i - 1) : a[j] = b[j]
        /\ \/ i > Len(a) /\ i <= Len(b)
           \/ i <= Len(a) /\ i <= Len(b) /\ Ord(a[i]) < Ord(b[i])

RECURSIVE SortStrings(_)
\* sort.Strings over a set of distinct keys.
SortStrings(S) ==
    IF S = {} THEN << >>
    ELSE LET m == CHOOSE a \in S : \A b \in S \ {a} : StrLess(a, b)
         IN  <<m>> \o SortStrings(S \ {m})

RECURSIVE SortStringsDesc(_)
SortStringsDesc(S) ==
    IF S = {} THEN << >>
    ELSE LET m == CHOOSE a \in S : \A b \in S \ {a} : StrLess(b, a)
         IN  <<m>> \o SortStringsDesc(S \ {m})

RECURSIVE Flatten(_)
\* The concatenation of a sequence of strings (split in halves, to keep the
\* evaluation shallow).
Flatten(ss) ==
    IF Len(ss) = 0 THEN << >>
    ELSE IF Len(ss) = 1 THEN ss[1]
    ELSE LET mid == Len(ss) \div 2
         IN  Flatten(SubSeq(ss, 1, mid)) \o Flatten(SubSeq(ss, mid + 1, Len(ss)))

\* strings.Join
Join(ss, sep) ==
    IF Len(ss) = 0 THEN << >>
    ELSE Flatten([i \in 1 .. (2 * Len(ss) - 1) |->
                     IF i % 2 = 1 THEN ss[(i + 1) \div 2] ELSE sep])

\* url.QueryEscape on one byte.
EscapeByte(c) ==
    IF c \in UnreservedSet THEN <<c>>
    ELSE IF c = " " THEN <<"+">>
    ELSE <<"%", HexDigits[(Ord(c) \div 16) + 1], HexDigits[(Ord(c) % 16) + 1]>>

QueryEscape(s) == Flatten([i \in 1 .. Len(s) |-> EscapeByte(s[i])])

\* strings.Replace(s, "+", "%20", -1)
ReplacePlus(s) ==
    Flatten([i \in 1 .. Len(s) |-> IF s[i] = "+" THEN <<"%", "2", "0">> ELSE <<s[i]>>])

urlEncode(input) == ReplacePlus(QueryEscape(input))

\* url.Values holding one value per key, and its Set.
NoParams == << >>
Set(m, k, v) == [x \in (DOMAIN m) \cup {k} |-> IF x = k THEN v ELSE m[x]]

\* Mutant: the keys are not put in ascending order.
buildQueryString_unsorted(p) ==
    LET keys == SortStringsDesc((DOMAIN p) \ {kSignature})
    IN  Join([i \in 1 .. Len(keys) |->
                 urlEncode(keys[i]) \o <<"=">> \o urlEncode(p[keys[i]])], <<"&">>)

buildQueryString(p) ==
    LET keys == SortStrings((DOMAIN p) \ {kSignature})
    IN  Join([i \in 1 .. Len(keys) |->
                 urlEncode(keys[i]) \o <<"=">> \o urlEncode(p[keys[i]])], <<"&">>)

\* url.Values.Encode: the keys sorted, each pair query-escaped.
Encode(p) ==
    LET keys == SortStrings(DOMAIN p)
    IN  Join([i \in 1 .. Len(keys) |->
                 QueryEscape(keys[i]) \o <<"=">> \o QueryEscape(p[keys[i]])], <<"&">>)

\* The inputs of the model.
Ids        == {<<"c", "1">>, <<"a", " ", "&", "=">>}
JsonIds    == {<<"c", "1">>}
OptionCodes == {<<"v", "1">>}
Cycles     == {<<"M", "o", "n", "t", "h">>, <<"Y", "e", "a", "r">>}
Timestamps ==
    {<<"2", "0", "0", "6", "-", "0", "1", "-", "0", "2", "T", "1", "5", ":", "0", "4", ":",
       "0", "5", "Z">>}
Nonces     == {<<"n", "0", "X">>}   \* randomString(64), cut short
Tokens     == {<<"t", "K", "9">>}   \* randomString(64), cut short
Signatures == {<<"a", "B", "+", "/", "0", "=">>, <<"Z", "z", "9", "=">>}  \* base64 text
AccessKeyIds == {<<"a", "k">>}

\* A variadic argument of CreateOrder: a string, or a value of another type.
Str(s) == [isString |-> TRUE, s |-> s]
NotAString == [isString |-> FALSE, s |-> << >>]
OverrideArgs ==
    {Str(kSignature), Str(kTimestamp), Str(<<"z">>), Str(<<"{">>),
     Str(<<"a", " ", "b", "&", "=">>), NotAString}
OverrideLists == UNION {[1 .. n -> OverrideArgs] : n \in 0 .. MaxOverrides}

\* strconv.Itoa, for the page numbers of the model.
Itoa(n) == <<HexDigits[n + 1]>>

RECURSIVE ApplyOverrides(_, _, _)
\* The loop of CreateOrder over its overrides, from pair i on.
ApplyOverrides(p, ov, i) ==
    IF i >= Len(ov) \div 2 THEN p
    ELSE LET a == ov[2 * i + 1]
             b == ov[2 * i + 2]
         IN  ApplyOverrides(IF a.isString /\ b.isString THEN Set(p, a.s, b.s) ELSE p,
                            ov, i + 1)

SignBuild(name, p) ==
    /\ spc = "new"
    /\ sop' = name
    /\ spc' = "built"
    /\ params' = p
    /\ builtParams' = p
    /\ query' = << >>
    /\ signedMsg' = << >>
    /\ sentQuery' = << >>

SignGetProducts(pageNum) ==
    SignBuild("GetProducts",
              Set(Set(Set(NoParams, kAction, vDescribeApiMetering), kType, vOne),
                  kPageNum, Itoa(pageNum)))

SignGetProduct(id) ==
    SignBuild("GetProduct", Set(Set(NoParams, kAction, vDescribeProduct), kCode, id))

SignGetPrice(id, option) ==
    SignBuild("GetPrice",
              Set(Set(Set(NoParams, kAction, vDescribePrice), kOrderType, vInstanceBuy),
                  kCommodity,
                  jsonPriceHead \o option \o jsonPriceMid \o id \o jsonTail))

SignCreateOrder(id, code, duration, cycle, token, overrides) ==
    LET commodity == jsonPriceHead \o code \o jsonOrderMid \o Itoa(duration)
                     \o jsonOrderCycle \o cycle \o jsonOrderProduct \o id \o jsonTail
        p == Set(Set(Set(Set(Set(NoParams, kAction, vCreateOrder), kClientToken, token),
                         kOrderType, vInstanceBuy), kPaymentType, vAuto),
                 kCommodity, commodity)
    IN  SignBuild("CreateOrder", ApplyOverrides(p, overrides, 0))

\* MarketClient.request up to the URL it hands to the HTTP client. The HMAC
\* is any base64 text; its input is kept in signedMsg.
SignRequest(accessKeyId, ts, nonce, signature) ==
    LET p == Set(Set(Set(Set(Set(Set(Set(params,
                 kFormat, vJson), kVersion, vApiVersion), kAccessKeyId, accessKeyId),
                 kSignatureMethod, vHmacSha1), kTimestamp, ts),
                 kSignatureVersion, vSigVersion), kSignatureNonce, nonce)
        q == buildQueryString(p)
    IN  /\ spc = "built"
        /\ query' = q
        /\ signedMsg' = SignPrefix \o urlEncode(q)
        /\ params' = Set(p, kSignature, signature)
        /\ sentQuery' = Encode(Set(p, kSignature, signature))
        /\ spc' = "sent"
        /\ UNCHANGED <<sop, builtParams>>

\* request has returned; the operation returns and its url.Values is dropped.
SignReturn ==
    /\ spc = "sent"
    /\ sop' = "none"
    /\ spc' = "new"
    /\ params' = << >>
    /\ builtParams' = << >>
    /\ query' = << >>
    /\ signedMsg' = << >>
    /\ sentQuery' = << >>

NextSign ==
    \/ (\E n \in 1 .. 2 : SignGetProducts(n)) /\ UNCHANGED <<seqVars, concVars>>
    \/ (\E id \in Ids : SignGetProduct(id)) /\ UNCHANGED <<seqVars, concVars>>
    \/ (\E id \in JsonIds, o \in OptionCodes : SignGetPrice(id, o))
          /\ UNCHANGED <<seqVars, concVars>>
    \/ (\E id \in JsonIds, c \in OptionCodes, cy \in Cycles, tk \in Tokens,
           ov \in OverrideLists : SignCreateOrder(id, c, 1, cy, tk, ov))
          /\ UNCHANGED <<seqVars, concVars>>
    \/ (\E a \in AccessKeyIds, ts \in Timestamps, n \in Nonces, sg \in Signatures :
           SignRequest(a, ts, n, sg)) /\ UNCHANGED <<seqVars, concVars>>
    \/ SignReturn /\ UNCHANGED <<seqVars, concVars>>

SpecSign == Init /\ [][NextSign]_vars

\* What a server reads out of a query string: the pairs between "&", each cut
\* at its first "=", percent-decoded ("+" a space in a URL's query).
PercentDecode(s, plusIsSpace) ==
    LET inEscape(i) == \/ i >= 2 /\ s[i - 1] = "%"
                       \/ i >= 3 /\ s[i - 2] = "%"
    IN  Flatten([i \in 1 .. Len(s) |->
                    IF inEscape(i) THEN << >>
                    ELSE IF s[i] = "%" THEN <<Chr(16 * HexVal(s[i + 1]) + HexVal(s[i + 2]))>>
                    ELSE IF s[i] = "+" /\ plusIsSpace THEN <<" ">>
                    ELSE <<s[i]>>])

\* The position of the first c in s, Len(s) + 1 if there is none.
IndexOf(s, c) ==
    CHOOSE i \in 1 .. (Len(s) + 1) :
        /\ i <= Len(s) => s[i] = c
        /\ \A j \in 1 .. (i - 1) : s[j] # c

RECURSIVE SplitOn(_, _)
SplitOn(s, c) ==
    LET i == IndexOf(s, c)
    IN  IF i > Len(s) THEN <<s>>
        ELSE <<SubSeq(s, 1, i - 1)>> \o SplitOn(SubSeq(s, i + 1, Len(s)), c)

ParseQuery(s, plusIsSpace) ==
    LET parts == SplitOn(s, "&")
    IN  [i \in 1 .. Len(parts) |->
            LET e == IndexOf(parts[i], "=")
            IN  [k |-> PercentDecode(SubSeq(parts[i], 1, e - 1), plusIsSpace),
                 v |-> PercentDecode(SubSeq(parts[i], e + 1, Len(parts[i])), plusIsSpace)]]

Range(f) == {f[i] : i \in DOMAIN f}

RequestKeys == {kFormat, kVersion, kAccessKeyId, kSignatureMethod, kTimestamp,
                kSignatureVersion, kSignatureNonce}

\* C8: the signature is computed over the canonical query of the request that
\* is sent: the canonical string holds every parameter but Signature once, in
\* ascending key order, as percent-encoded key=value pairs joined by "&"; the
\* URL carries exactly those pairs and the Signature; what the caller supplied
\* (CreateOrder's overrides included) is among them.
C8_SignedIsSent ==
    spc = "sent" =>
        LET signed == ParseQuery(query, FALSE)
            sent   == ParseQuery(sentQuery, TRUE)
        IN  /\ \A i \in 1 .. (Len(signed) - 1) : StrLess(signed[i].k, signed[i + 1].k)
            /\ \A i \in 1 .. Len(signed) : signed[i].k # kSignature
            /\ Len(sent) = Len(signed) + 1
            /\ Range(sent) = Range(signed) \cup {[k |-> kSignature, v |-> params[kSignature]]}
            /\ Range(signed) = {[k |-> x, v |-> params[x]] : x \in (DOMAIN params) \ {kSignature}}
            /\ \A x \in (DOMAIN builtParams) \ (RequestKeys \cup {kSignature}) :
                   [k |-> x, v |-> builtParams[x]] \in Range(signed)
            /\ RequestKeys \subseteq {signed[i].k : i \in 1 .. Len(signed)}
            /\ signedMsg = SignPrefix \o urlEncode(query)

\* A CreateOrder request was sent whose overrides named Signature and a key
\* that needs percent-encoding.
C8_Witness ==
    /\ spc = "sent" /\ sop = "CreateOrder"
    /\ kSignature \in DOMAIN builtParams
    /\ builtParams[kSignature] # params[kSignature]

====
